---- MODULE Spec2Model ----
(***************************************************************************)
(* The fine-tuning notebook (main.ipynb) as a state machine.               *)
(*                                                                         *)
(* The notebook is a sequence of code cells run in one Python kernel.  A   *)
(* cell may be run at any time and any number of times; the names it binds *)
(* stay bound in the kernel for the cells run after it.  Each cell is one  *)
(* action.  A request of a cell either succeeds or fails (an exception of  *)
(* the SDK, a non-success status of the deployment PUT); an exception ends *)
(* the cell at the line that raised it, and so does the NameError of a     *)
(* name no cell has bound yet.                                             *)
(*                                                                         *)
(* The other side of every request is the remote service.  Its state       *)
(* (files, jobs, deployments) and the steps it takes on its own are        *)
(* modelled from what the notebook's text says of it.                      *)
(***************************************************************************)
EXTENDS Integers, Sequences, FiniteSets, TLC

\* Bounds of the model.
MaxUploads == 2      \* files the service accepts
MaxJobs == 2         \* jobs the service accepts
MaxEpochs == 1       \* checkpoints a job produces before it ends

\* Program constants.
Seed == 105                  \* main.ipynb:126
NEpochs == 2                 \* main.ipynb:173
EventsLimit == 10            \* main.ipynb:212, 233
SkuCapacity == 1             \* main.ipynb:288, 352, 421

VARIABLES
    \* names bound in the kernel
    client, training_file_id, validation_file_id, job_id, result_file_id,
    model_deployment_name, fine_tuned_model,
    \* the remote service
    files, jobs, deployments,
    \* what the cell just run did: its requests, its prints, its response
    \* (NoStep after a step of the service, Deleted(d) after a deletion)
    last

kernel == <<client, training_file_id, validation_file_id, job_id,
            result_file_id, model_deployment_name, fine_tuned_model>>
service == <<files, jobs, deployments>>
vars == <<kernel, service, last>>

\* The four identifier variables threaded between the cells.
ids == <<training_file_id, validation_file_id, job_id, result_file_id>>

-----------------------------------------------------------------------------
\* Values.  Every identifier is a tagged tuple, so that two identifiers of
\* different kinds are different values.

Undef == <<"undef">>          \* a name no cell has bound: using it raises NameError
None == <<"None">>            \* Python's None, an absent optional field
Env(name) == <<"env", name>>  \* os.getenv(name)
Lit(s) == <<"lit", s>>        \* a string literal of the notebook

FileId(n) == <<"file", n>>
JobId(j) == <<"ftjob", j>>
FtModel(j) == <<"ft", j>>
CheckpointId(j, k) == <<"ftchkpt", j, k>>
ResultFileId(j) == <<"result", j>>

Outcomes == {"ok", "error"}

\* The outcomes a request can have once the one before it had outcome `before`:
\* a request is sent only when the one before it has returned.
After(before) == IF before = "ok" THEN Outcomes ELSE {"error"}

Range(f) == {f[x] : x \in DOMAIN f}

\* The index of the job an ID names, 0 when it names none.
JobIndex(id) == IF \E j \in 1..Len(jobs) : JobId(j) = id
                THEN CHOOSE j \in 1..Len(jobs) : JobId(j) = id
                ELSE 0

-----------------------------------------------------------------------------
\* Requests.  A request is a record: the call site that issued it (site), the
\* operation (op), what was sent (args) and whether it succeeded (ok).

Request(site, op, args, ok) == [site |-> site, op |-> op, args |-> args, ok |-> ok]

\* No cell has just run.
NoStep ==
    [cell |-> "none", failed |-> FALSE, reqs |-> <<>>, stdout |-> <<>>, response |-> None]

\* The step record of a cell that stopped on a NameError (or could not be
\* compiled) before it issued any request.
NoRequestStep(cell) ==
    [cell |-> cell, failed |-> TRUE, reqs |-> <<>>, stdout |-> <<>>, response |-> None]

Step(cell, reqs, stdout, response) ==
    [cell |-> cell,
     failed |-> \E i \in 1..Len(reqs) : ~reqs[i].ok,
     reqs |-> reqs, stdout |-> stdout, response |-> response]

-----------------------------------------------------------------------------
\* Upload cell: client.files.create, twice.  The cell imports os and
\* AzureOpenAI and binds client before its first request, and no other cell
\* imports them: client is bound exactly when they are, so a cell that uses
\* os, AzureOpenAI or client before this one has run stops on a NameError.

TrainingFileName == Lit("training_set.jsonl")
ValidationFileName == Lit("validation_set.jsonl")

\* UploadArgs sending the file for another purpose.
UploadArgsOtherPurpose(name) == [file |-> name, purpose |-> "assistants"]

UploadArgs(name) == [file |-> name, purpose |-> "fine-tune"]

\* The service stores an uploaded file and returns its ID.
ServiceStoreFile(fs, args) == Append(fs, [filename |-> args.file, purpose |-> args.purpose])

\* The requests of one run of the cell: the validation upload is sent only
\* after the training upload has returned.
UploadRequests(outT, outV) ==
    LET reqT == Request("files.create:training", "files.create",
                        UploadArgs(TrainingFileName), outT = "ok")
        reqV == Request("files.create:validation", "files.create",
                        UploadArgs(ValidationFileName), outV = "ok")
    IN  IF outT = "ok" THEN <<reqT, reqV>> ELSE <<reqT>>

\* Assigned binding the name whether or not the request returned.
AssignedAlways(old, ok, id) == id

\* The value a name has after an assignment `name = response.id` that is
\* reached only when the request returned.
Assigned(old, ok, id) == IF ok THEN id ELSE old

UploadCell(outT, outV) ==
    LET reqs == UploadRequests(outT, outV)
        okT == reqs[1].ok
        okV == Len(reqs) = 2 /\ reqs[2].ok
        n == Len(files)
        files1 == IF okT THEN ServiceStoreFile(files, reqs[1].args) ELSE files
        files2 == IF okV THEN ServiceStoreFile(files1, reqs[2].args) ELSE files1
    IN  /\ Len(files2) <= MaxUploads
        /\ client' = Lit("AzureOpenAI")
        /\ files' = files2
        /\ training_file_id' = Assigned(training_file_id, okT, FileId(n + 1))
        /\ validation_file_id' = Assigned(validation_file_id, okV, FileId(n + 2))
        /\ last' = Step("upload", reqs,
                        IF okT /\ okV
                        THEN << <<"Training file ID:", FileId(n + 1)>>,
                                <<"Validation file ID:", FileId(n + 2)>> >>
                        ELSE <<>>,
                        None)
        /\ UNCHANGED <<job_id, result_file_id, model_deployment_name,
                       fine_tuned_model, jobs, deployments>>

-----------------------------------------------------------------------------
\* Job create cell: client.fine_tuning.jobs.create with the two file IDs.

\* CreateJobArgs with the two file IDs in each other's place.
CreateJobArgsSwapped(tf, vf) ==
    [training_file |-> vf, validation_file |-> tf,
     model |-> Env("MODEL_NAME"), seed |-> Seed]

CreateJobArgs(tf, vf) ==
    [training_file |-> tf, validation_file |-> vf,
     model |-> Env("MODEL_NAME"), seed |-> Seed]

Optional(args, key) == IF key \in DOMAIN args THEN args[key] ELSE None

\* The job the service creates from the arguments of a create request.
ServiceNewJob(args) ==
    [training_file |-> args.training_file,
     validation_file |-> Optional(args, "validation_file"),
     model |-> args.model,
     seed |-> Optional(args, "seed"),
     hyperparameters |-> Optional(args, "hyperparameters"),
     status |-> "queued",
     fine_tuned_model |-> None,
     result_files |-> <<>>,
     checkpoints |-> <<>>,
     events |-> <<"created">>]

\* What the cell prints after the job is created.
CreateJobPrints(id, job) ==
    << <<"Job ID:", id>>, <<"Status:", id>> >>

CreateJobCell(out) ==
    IF client = Undef \/ training_file_id = Undef \/ validation_file_id = Undef
    THEN /\ last' = NoRequestStep("create")
         /\ UNCHANGED <<kernel, service>>
    ELSE LET ok == out = "ok"
             req == Request("jobs.create:seed", "jobs.create",
                            CreateJobArgs(training_file_id, validation_file_id), ok)
             id == JobId(Len(jobs) + 1)
             job == ServiceNewJob(req.args)
         IN  /\ ok => Len(jobs) < MaxJobs
             /\ jobs' = IF ok THEN Append(jobs, job) ELSE jobs
             /\ job_id' = Assigned(job_id, ok, id)
             /\ last' = Step("create", <<req>>,
                             IF ok THEN CreateJobPrints(id, job) ELSE <<>>,
                             IF ok THEN [id |-> id, status |-> job.status] ELSE None)
             /\ UNCHANGED <<client, training_file_id, validation_file_id,
                            result_file_id, model_deployment_name,
                            fine_tuned_model, files, deployments>>

-----------------------------------------------------------------------------
\* Hyperparameters cell: a second jobs.create, whose result is bound to no name.

HyperparametersJobArgs(tf) ==
    [training_file |-> tf, model |-> Env("MODEL_NAME"),
     hyperparameters |-> [n_epochs |-> NEpochs]]

\* HyperparametersJobCell binding job_id from the response, as the create
\* cell does.
HyperparametersJobCellBindsJobId(out) ==
    IF client = Undef \/ training_file_id = Undef
    THEN /\ last' = NoRequestStep("hyperparameters")
         /\ UNCHANGED <<kernel, service>>
    ELSE LET ok == out = "ok"
             req == Request("jobs.create:hyperparameters", "jobs.create",
                            HyperparametersJobArgs(training_file_id), ok)
         IN  /\ ok => Len(jobs) < MaxJobs
             /\ jobs' = IF ok THEN Append(jobs, ServiceNewJob(req.args)) ELSE jobs
             /\ job_id' = Assigned(job_id, ok, JobId(Len(jobs) + 1))
             /\ last' = Step("hyperparameters", <<req>>, <<>>, None)
             /\ UNCHANGED <<client, training_file_id, validation_file_id,
                            result_file_id, model_deployment_name,
                            fine_tuned_model, files, deployments>>

HyperparametersJobCell(out) ==
    IF client = Undef \/ training_file_id = Undef
    THEN /\ last' = NoRequestStep("hyperparameters")
         /\ UNCHANGED <<kernel, service>>
    ELSE LET ok == out = "ok"
             req == Request("jobs.create:hyperparameters", "jobs.create",
                            HyperparametersJobArgs(training_file_id), ok)
         IN  /\ ok => Len(jobs) < MaxJobs
             /\ jobs' = IF ok THEN Append(jobs, ServiceNewJob(req.args)) ELSE jobs
             /\ last' = Step("hyperparameters", <<req>>, <<>>, None)
             /\ UNCHANGED <<kernel, files, deployments>>

-----------------------------------------------------------------------------
\* The service's side of a job: it starts a queued job, produces a checkpoint
\* at the end of an epoch, and ends the job.

JobStarted(job) ==
    [job EXCEPT !.status = "running", !.events = Append(@, "started")]

JobEpochDone(job, j) ==
    [job EXCEPT !.checkpoints = Append(@, CheckpointId(j, Len(@) + 1)),
                !.events = Append(@, "checkpoint")]

\* JobSucceeded attaching no result file.
JobSucceededNoResultFile(job, j) ==
    [job EXCEPT !.status = "succeeded",
                !.fine_tuned_model = FtModel(j),
                !.events = Append(@, "succeeded")]

\* On success the job carries the name of the customised model and the
\* result file the service attaches to it.
JobSucceeded(job, j) ==
    [job EXCEPT !.status = "succeeded",
                !.fine_tuned_model = FtModel(j),
                !.result_files = <<ResultFileId(j)>>,
                !.events = Append(@, "succeeded")]

JobStopped(job, how) ==
    [job EXCEPT !.status = how, !.events = Append(@, how)]

ServiceStartJob(j) ==
    /\ jobs[j].status = "queued"
    /\ jobs' = [jobs EXCEPT ![j] = JobStarted(@)]
    /\ last' = NoStep
    /\ UNCHANGED <<kernel, files, deployments>>

ServiceEpoch(j) ==
    /\ jobs[j].status = "running"
    /\ Len(jobs[j].checkpoints) < MaxEpochs
    /\ jobs' = [jobs EXCEPT ![j] = JobEpochDone(@, j)]
    /\ last' = NoStep
    /\ UNCHANGED <<kernel, files, deployments>>

ServiceSucceedJob(j) ==
    /\ jobs[j].status = "running"
    /\ jobs' = [jobs EXCEPT ![j] = JobSucceeded(@, j)]
    /\ last' = NoStep
    /\ UNCHANGED <<kernel, files, deployments>>

ServiceStopJob(j, how) ==
    /\ jobs[j].status \in {"queued", "running"}
    /\ jobs' = [jobs EXCEPT ![j] = JobStopped(@, how)]
    /\ last' = NoStep
    /\ UNCHANGED <<kernel, files, deployments>>

-----------------------------------------------------------------------------
\* What the service answers to the read requests.

\* jobs.retrieve(id)
ServiceRetrieveJob(id) ==
    LET job == jobs[JobIndex(id)]
    IN  [id |-> id, status |-> job.status,
         fine_tuned_model |-> job.fine_tuned_model,
         result_files |-> job.result_files]

LastN(s, n) == IF Len(s) <= n THEN s ELSE SubSeq(s, Len(s) - n + 1, Len(s))

\* jobs.list_events(fine_tuning_job_id=id, limit=limit)
ServiceListEvents(id, limit) ==
    LET ev == LastN(jobs[JobIndex(id)].events, limit)
    IN  [object |-> "list",
         data |-> [i \in 1..Len(ev) |->
                     [object |-> "fine_tuning.job.event", job |-> id, value |-> ev[i]]]]

\* The list of checkpoints of a job, which the checkpoints endpoint answers.
ServiceListCheckpoints(id) ==
    LET ck == jobs[JobIndex(id)].checkpoints
    IN  [object |-> "list",
         data |-> [i \in 1..Len(ck) |->
                     [object |-> "fine_tuning.job.checkpoint", job |-> id, value |-> ck[i]]]]

-----------------------------------------------------------------------------
\* Status check cell.

StatusPrints(response) ==
    << <<"Job ID:", response.id>>, <<"Status:", response.status>> >>

StatusCell(out) ==
    /\ IF client = Undef \/ job_id = Undef
       THEN last' = NoRequestStep("status")
       ELSE LET ok == out = "ok"
                req == Request("jobs.retrieve:status", "jobs.retrieve",
                               [fine_tuning_job_id |-> job_id], ok)
                response == ServiceRetrieveJob(job_id)
            IN  last' = Step("status", <<req>>,
                             IF ok THEN StatusPrints(response) ELSE <<>>,
                             IF ok THEN response ELSE None)
    /\ UNCHANGED <<kernel, service>>

\* List events cell.
ListEventsCall(id) == [op |-> "jobs.list_events", fine_tuning_job_id |-> id, limit |-> EventsLimit]

\* The call of the checkpoints cell.
CheckpointsCall(id) == [op |-> "jobs.list_events", fine_tuning_job_id |-> id, limit |-> EventsLimit]

\* The service's answer to a listing call.
ServiceList(call) ==
    IF call.op = "jobs.checkpoints.list"
    THEN ServiceListCheckpoints(call.fine_tuning_job_id)
    ELSE ServiceListEvents(call.fine_tuning_job_id, call.limit)

\* ListingCell cancelling the job once it has listed.
ListingCellCancels(cell, call, out) ==
    LET ok == out = "ok"
        id == [fine_tuning_job_id |-> call.fine_tuning_job_id]
        req == Request(cell, call.op, id, ok)
        cancel == Request("jobs.cancel", "jobs.cancel", id, TRUE)
    IN  last' = Step(cell, IF ok THEN <<req, cancel>> ELSE <<req>>, <<>>,
                     IF ok THEN ServiceList(call) ELSE None)

ListingCell(cell, call, out) ==
    LET ok == out = "ok"
        req == Request(cell, call.op,
                       [fine_tuning_job_id |-> call.fine_tuning_job_id], ok)
    IN  last' = Step(cell, <<req>>, <<>>, IF ok THEN ServiceList(call) ELSE None)

ListEventsCell(out) ==
    /\ IF client = Undef \/ job_id = Undef
       THEN last' = NoRequestStep("events")
       ELSE ListingCell("events", ListEventsCall(job_id), out)
    /\ UNCHANGED <<kernel, service>>

CheckpointsCell(out) ==
    /\ IF client = Undef \/ job_id = Undef
       THEN last' = NoRequestStep("checkpoints")
       ELSE ListingCell("checkpoints", CheckpointsCall(job_id), out)
    /\ UNCHANGED <<kernel, service>>

-----------------------------------------------------------------------------
\* Deployment cells: a PUT of the control plane, with the requests library.

\* A resource path: /subscriptions/{s}/resourceGroups/{g}/providers/
\* Microsoft.CognitiveServices/accounts/{a}
AccountPath(s, g, a) == [subscription |-> s, resource_group |-> g, account |-> a]

\* The f-string of the request URL: the account's path, /deployments/{name},
\* and the query string written into the URL (<<>> when there is none).
DeploymentUrl(s, g, a, name, query) ==
    [host |-> "management.azure.com", account |-> AccountPath(s, g, a),
     deployment |-> name, query |-> query]

\* RequestsPut losing the query string written into the URL.
RequestsPutParamsOnly(url, params, headers, body) ==
    [method |-> "PUT", host |-> url.host, account |-> url.account,
     deployment |-> url.deployment, query |-> params,
     headers |-> headers, body |-> body]

\* requests.put(url, params=..., headers=..., data=... | json=...): the query
\* of the request is the query of the URL and the params.
RequestsPut(url, params, headers, body) ==
    [method |-> "PUT", host |-> url.host, account |-> url.account,
     deployment |-> url.deployment, query |-> params @@ url.query,
     headers |-> headers, body |-> body]

Bearer(token) == <<"Bearer", token>>

DeployHeaders(token) ==
    ("Authorization" :> Bearer(token)) @@ ("Content-Type" :> "application/json")

DeployParams == ("api-version" :> "2023-05-01")

Sku == [name |-> "standard", capacity |-> SkuCapacity]

\* deploy_data of the plain deployment cell.
PlainDeployData(name) ==
    [sku |-> Sku,
     properties |-> [model |-> [format |-> "OpenAI", name |-> name, version |-> "1"]]]

\* CrossRegionDeployData carrying the source under both keys.
CrossRegionDeployDataBothKeys(name, source) ==
    [sku |-> Sku,
     properties |-> [model |-> [format |-> "OpenAI", name |-> name, version |-> "1",
                                source |-> source, sourceAccount |-> source]]]

\* deploy_data of the cross-region cell.
CrossRegionDeployData(name, source) ==
    [sku |-> Sku,
     properties |-> [model |-> [format |-> "OpenAI", name |-> name, version |-> "1",
                                source |-> source]]]

\* CrossTenantPayload taking the model name from the job held in job_id.
CrossTenantPayloadFromJob(name, sourceAccount) ==
    [sku |-> Sku,
     properties |-> [model |-> [format |-> "OpenAI",
                                name |-> IF JobIndex(job_id) # 0
                                         THEN jobs[JobIndex(job_id)].fine_tuned_model
                                         ELSE name,
                                version |-> "1",
                                sourceAccount |-> sourceAccount]]]

\* payload of the cross-tenant cell.
CrossTenantPayload(name, sourceAccount) ==
    [sku |-> Sku,
     properties |-> [model |-> [format |-> "OpenAI", name |-> name, version |-> "1",
                                sourceAccount |-> sourceAccount]]]

PlainDeploymentName == Lit("gpt-35-turbo-ft")
CrossTenantDeploymentName == Lit("DESTINATION-MODEL-DEPLOYMENT-NAME")
ExampleFineTunedModel == Lit("gpt-4o-mini-2024-07-18.ft-f8838e7c6d4a4cbe882a002815758510")

\* The model name of the plain and cross-region cells is a placeholder,
\* <"fine_tuned_model">, which is no Python expression: the cell compiles only
\* once the user has written a name in its place.
Placeholder == <<"placeholder">>

\* The names the user can read off the service once a job has completed: its
\* customised model and its checkpoints.
DeployableNames(job) ==
    IF job.status = "succeeded"
    THEN {job.fine_tuned_model} \cup Range(job.checkpoints)
    ELSE {}

KnownModelNames == UNION {DeployableNames(jobs[j]) : j \in 1..Len(jobs)}

PlainDeployRequest(name) ==
    RequestsPut(
        DeploymentUrl(Env("SUBSCRIPTION_ID"), Env("RESOURCE_GROUP_NAME"),
                      Env("AZURE_OPENAI_RESOURCE_NAME"), PlainDeploymentName, <<>>),
        DeployParams, DeployHeaders(Env("TOKEN")), PlainDeployData(name))

CrossRegionDeployRequest(name) ==
    RequestsPut(
        DeploymentUrl(Lit("<DESTINATION_SUBSCRIPTION_ID>"),
                      Lit("<DESTINATION_RESOURCE_GROUP_NAME>"),
                      Lit("<DESTINATION_AZURE_OPENAI_RESOURCE_NAME>"),
                      PlainDeploymentName, <<>>),
        DeployParams, DeployHeaders(Env("<TOKEN>")),
        CrossRegionDeployData(name,
            AccountPath(Lit("<SOURCE_SUBSCRIPTION_ID>"), Lit("<SOURCE_RESOURCE_GROUP>"),
                        Lit("<SOURCE_RESOURCE>"))))

\* CrossTenantHeaders with the two tokens in each other's header.
CrossTenantHeadersSwapped(dest_token, source_token) ==
    ("Authorization" :> Bearer(source_token))
    @@ ("x-ms-authorization-auxiliary" :> Bearer(dest_token))
    @@ ("Content-Type" :> "application/json")

CrossTenantHeaders(dest_token, source_token) ==
    ("Authorization" :> Bearer(dest_token))
    @@ ("x-ms-authorization-auxiliary" :> Bearer(source_token))
    @@ ("Content-Type" :> "application/json")

CrossTenantDeployRequest(name) ==
    RequestsPut(
        DeploymentUrl(Lit("DESTINATION-SUBSCRIPTION-ID"), Lit("DESTINATION-RESOURCE-GROUP"),
                      Lit("DESTINATION-AZURE-OPENAI-RESOURCE-NAME"),
                      CrossTenantDeploymentName, ("api-version" :> "2024-10-01")),
        <<>>,
        CrossTenantHeaders(Lit("DESTINATION-ACCESS-TOKEN"), Lit("SOURCE-ACCESS-TOKEN")),
        CrossTenantPayload(name,
            AccountPath(Lit("SOURCE-SUBSCRIPTION-ID"), Lit("SOURCE-RESOURCE-GROUP"),
                        Lit("SOURCE-AZURE-OPENAI-RESOURCE-NAME"))))

\* The deployment a PUT addresses.
DeploymentKey(http) == [account |-> http.account, deployment |-> http.deployment]

\* ServicePut without the test for a model that is deployed already.
ServicePutNoCheck(deps, http) ==
    LET key == DeploymentKey(http)
        model == http.body.properties.model.name
    IN  [ok |-> TRUE,
         deployments |-> {d \in deps : d.key # key} \cup {[key |-> key, model |-> model]}]

\* The service's answer to a deployment PUT: it creates the deployment, or
\* rebinds the one of that name, unless the model is deployed already.
ServicePut(deps, http) ==
    LET key == DeploymentKey(http)
        model == http.body.properties.model.name
    IN  IF \E d \in deps : d.model = model
        THEN [ok |-> FALSE, deployments |-> deps]
        ELSE [ok |-> TRUE,
              deployments |-> {d \in deps : d.key # key}
                              \cup {[key |-> key, model |-> model]}]

\* One run of a deployment cell from its PUT on.  A request the service
\* refuses for another reason (out = "error") changes nothing.
DeployStep(cell, http, out) ==
    LET answer == IF out = "ok" THEN ServicePut(deployments, http)
                  ELSE [ok |-> FALSE, deployments |-> deployments]
        req == Request(cell, http.method, http, answer.ok)
    IN  /\ deployments' = answer.deployments
        /\ last' = Step(cell, <<req>>, <<"Creating a new deployment...">>, None)

PlainDeployCell(name, out) ==
    IF name = Placeholder \/ client = Undef
    THEN /\ last' = NoRequestStep("deploy")
         /\ UNCHANGED <<kernel, service>>
    ELSE /\ model_deployment_name' = PlainDeploymentName
         /\ DeployStep("deploy", PlainDeployRequest(name), out)
         /\ UNCHANGED <<client, training_file_id, validation_file_id, job_id,
                        result_file_id, fine_tuned_model, files, jobs>>

CrossRegionDeployCell(name, out) ==
    IF name = Placeholder \/ client = Undef
    THEN /\ last' = NoRequestStep("cross-region")
         /\ UNCHANGED <<kernel, service>>
    ELSE /\ model_deployment_name' = PlainDeploymentName
         /\ DeployStep("cross-region", CrossRegionDeployRequest(name), out)
         /\ UNCHANGED <<client, training_file_id, validation_file_id, job_id,
                        result_file_id, fine_tuned_model, files, jobs>>

CrossTenantDeployCell(out) ==
    /\ model_deployment_name' = CrossTenantDeploymentName
    /\ fine_tuned_model' = ExampleFineTunedModel
    /\ DeployStep("cross-tenant", CrossTenantDeployRequest(fine_tuned_model'), out)
    /\ UNCHANGED <<client, training_file_id, validation_file_id, job_id,
                   result_file_id, files, jobs>>

\* The step record of the service deleting deployment d: no cell ran, and the
\* deployment that went is on record.
Deleted(d) == [NoStep EXCEPT !.cell = "service:delete-inactive", !.response = d]

\* ServiceDeleteInactive taking the customised model away with the deployment.
ServiceDeleteInactiveWithModel(d) ==
    /\ deployments' = deployments \ {d}
    /\ jobs' = [j \in 1..Len(jobs) |->
                   IF jobs[j].fine_tuned_model = d.model
                   THEN [jobs[j] EXCEPT !.fine_tuned_model = None]
                   ELSE jobs[j]]
    /\ last' = Deleted(d)
    /\ UNCHANGED <<kernel, files>>

\* The service deletes a deployment that stayed inactive for fifteen days.
ServiceDeleteInactive(d) ==
    /\ deployments' = deployments \ {d}
    /\ last' = Deleted(d)
    /\ UNCHANGED <<kernel, files, jobs>>

-----------------------------------------------------------------------------
\* Chat completion cell.

\* ChatModel naming the base model in place of the deployment.
ChatModelBaseName == Lit("gpt-35-turbo")

ChatModel == Lit("gpt-35-turbo-ft")

\* The resource whose endpoint the client calls (AZURE_OPENAI_ENDPOINT is the
\* endpoint of the resource named AZURE_OPENAI_RESOURCE_NAME).
EndpointResource == Env("AZURE_OPENAI_RESOURCE_NAME")

\* The deployments of the called resource that carry the name the call gives.
DeploymentsNamed(deps, name) ==
    {d \in deps : d.key.account.account = EndpointResource /\ d.key.deployment = name}

\* ServiceCompletion answering for any customised model that exists, deployed
\* or not.
ServiceCompletionByModel(deps, name) ==
    IF \E j \in 1..Len(jobs) : jobs[j].status = "succeeded"
    THEN [ok |-> TRUE,
          model |-> jobs[CHOOSE j \in 1..Len(jobs) : jobs[j].status = "succeeded"].fine_tuned_model]
    ELSE [ok |-> FALSE, model |-> None]

\* The service's answer to a completion call: the call is served by the
\* deployment of that name, and by nothing else.
ServiceCompletion(deps, name) ==
    IF DeploymentsNamed(deps, name) # {}
    THEN [ok |-> TRUE, model |-> (CHOOSE d \in DeploymentsNamed(deps, name) : TRUE).model]
    ELSE [ok |-> FALSE, model |-> None]

ChatCell(out) ==
    /\ IF client = Undef
       THEN last' = NoRequestStep("chat")
       ELSE LET answer == IF out = "ok" THEN ServiceCompletion(deployments, ChatModel)
                          ELSE [ok |-> FALSE, model |-> None]
                req == Request("chat.completions.create", "chat.completions.create",
                               [model |-> ChatModel], answer.ok)
            IN  last' = Step("chat", <<req>>, <<>>,
                             IF answer.ok THEN [model |-> answer.model] ELSE None)
    /\ UNCHANGED <<kernel, service>>

-----------------------------------------------------------------------------
\* Analysis cell: the result file of the job.

\* The files the service holds: the uploaded ones and the result files of the
\* succeeded jobs.
ServiceHasFile(id) ==
    \/ \E n \in 1..Len(files) : FileId(n) = id
    \/ \E j \in 1..Len(jobs) : id \in Range(jobs[j].result_files)

\* Lines 491-493: result_file_id after the status test.
ResultFileIdAfter(old, response) ==
    IF response.status = "succeeded" THEN response.result_files[1] ELSE old

\* The requests of the cell from files.retrieve on, for the file ID it holds.
DownloadRequests(id, out2, out3) ==
    LET ok2 == out2 = "ok" /\ ServiceHasFile(id)
        ok3 == out3 = "ok" /\ ServiceHasFile(id)
        r2 == Request("files.retrieve", "files.retrieve", [file_id |-> id], ok2)
        r3 == Request("files.content", "files.content", [file_id |-> id], ok3)
    IN  IF id = Undef THEN <<>> ELSE IF ok2 THEN <<r2, r3>> ELSE <<r2>>

AnalysisCell(out1, out2, out3) ==
    IF client = Undef \/ job_id = Undef
    THEN /\ last' = NoRequestStep("analysis")
         /\ UNCHANGED <<kernel, service>>
    ELSE LET ok1 == out1 = "ok"
             r1 == Request("jobs.retrieve:analysis", "jobs.retrieve",
                           [fine_tuning_job_id |-> job_id], ok1)
             response == ServiceRetrieveJob(job_id)
             id == ResultFileIdAfter(result_file_id, response)
             reqs == IF ok1 THEN <<r1>> \o DownloadRequests(id, out2, out3) ELSE <<r1>>
             step == Step("analysis", reqs,
                          IF Len(reqs) > 1 THEN << <<"Downloading result file:", id>> >>
                          ELSE <<>>,
                          IF ok1 THEN response ELSE None)
         IN  /\ result_file_id' = Assigned(result_file_id, ok1, id)
             /\ last' = [step EXCEPT !.failed = @ \/ (ok1 /\ id = Undef)]
             /\ UNCHANGED <<client, training_file_id, validation_file_id, job_id,
                            model_deployment_name, fine_tuned_model, service>>

-----------------------------------------------------------------------------
Init ==
    /\ client = Undef
    /\ training_file_id = Undef
    /\ validation_file_id = Undef
    /\ job_id = Undef
    /\ result_file_id = Undef
    /\ model_deployment_name = Undef
    /\ fine_tuned_model = Undef
    /\ files = <<>>
    /\ jobs = <<>>
    /\ deployments = {}
    /\ last = NoStep

Next ==
    \/ \E outT \in Outcomes : \E outV \in After(outT) : UploadCell(outT, outV)
    \/ \E out \in Outcomes : CreateJobCell(out)
    \/ \E out \in Outcomes : HyperparametersJobCell(out)
    \/ \E out \in Outcomes : StatusCell(out)
    \/ \E out \in Outcomes : ListEventsCell(out)
    \/ \E out \in Outcomes : CheckpointsCell(out)
    \/ \E name \in KnownModelNames \cup {Placeholder}, out \in Outcomes :
           PlainDeployCell(name, out)
    \/ \E name \in KnownModelNames \cup {Placeholder}, out \in Outcomes :
           CrossRegionDeployCell(name, out)
    \/ \E out \in Outcomes : CrossTenantDeployCell(out)
    \/ \E out \in Outcomes : ChatCell(out)
    \/ \E out1 \in Outcomes : \E out2 \in After(out1) : \E out3 \in After(out2) :
           AnalysisCell(out1, out2, out3)
    \/ \E d \in deployments : ServiceDeleteInactive(d)
    \/ \E j \in 1..Len(jobs) : ServiceStartJob(j)
    \/ \E j \in 1..Len(jobs) : ServiceEpoch(j)
    \/ \E j \in 1..Len(jobs) : ServiceSucceedJob(j)
    \/ \E j \in 1..Len(jobs), how \in {"failed", "cancelled"} : ServiceStopJob(j, how)

Spec == Init /\ [][Next]_vars

-----------------------------------------------------------------------------
\* Properties.

DeployCells == {"deploy", "cross-region", "cross-tenant"}

\* The requests of the cell just run that are of operation op.
Issued(op) == {i \in 1..Len(last.reqs) : last.reqs[i].op = op}

\* The model name a deployment PUT carries.
ModelNameOf(req) == req.args.body.properties.model.name

\* The customised models that are deployed.
DeployedModels(deps) == {d.model : d \in deps}

\* C1: no customised model is bound to more than one deployment, and a
\* deployment request naming a model that is already deployed ends in an error
\* and leaves the set of deployments as it was.
C1_OneDeploymentPerModel ==
    /\ [](\A d1, d2 \in deployments : d1.model = d2.model => d1 = d2)
    /\ [][\A i \in 1..Len(last'.reqs) :
            (last'.reqs[i].op = "PUT"
             /\ ModelNameOf(last'.reqs[i]) \in DeployedModels(deployments))
            => (~last'.reqs[i].ok /\ deployments' = deployments)]_vars

\* A deployment request was refused while the model it names is deployed
\* under another deployment, and a second model is deployed beside it.
C1_Witness ==
    /\ last.cell = "cross-region"
    /\ Len(last.reqs) = 1
    /\ ~last.reqs[1].ok
    /\ \E d \in deployments :
          /\ d.model = ModelNameOf(last.reqs[1])
          /\ d.key # DeploymentKey(last.reqs[1].args)
    /\ Cardinality(deployments) >= 2

\* C2: every files.retrieve and files.content request of the analysis step
\* carries result_files[0] of the job the step retrieved.
C2_DownloadsFirstResultFileOfJob ==
    last.cell = "analysis" =>
        \A i \in Issued("files.retrieve") \cup Issued("files.content") :
            /\ Len(last.response.result_files) > 0
            /\ last.reqs[i].args.file_id = last.response.result_files[1]

\* C3: a chat completion request succeeds only if a deployment of the name it
\* gives exists when it is made, and the model that answers is the one that
\* deployment binds; a succeeded job without a deployment is not callable.
C3_CompletionNeedsDeployment ==
    \A i \in Issued("chat.completions.create") :
        last.reqs[i].ok =>
            \E d \in deployments :
                /\ d.key.deployment = last.reqs[i].args.model
                /\ d.key.account.account = EndpointResource
                /\ d.model = last.response.model

\* A completion call was served by the deployed customised model of a job.
C3_Witness ==
    /\ last.cell = "chat"
    /\ ~last.failed
    /\ \E j \in 1..Len(jobs) : jobs[j].fine_tuned_model = last.response.model

\* The names the job held in job_id offers: its model and its checkpoints.
NamesOfJob(id) ==
    IF JobIndex(id) = 0 THEN {}
    ELSE {jobs[JobIndex(id)].fine_tuned_model} \cup Range(jobs[JobIndex(id)].checkpoints)

\* C4 as stated: the model name of every deployment request is the model
\* name (or a checkpoint ID) of the job held in job_id.
C4_NameThreadedFromJob ==
    \A i \in Issued("PUT") : ModelNameOf(last.reqs[i]) \in NamesOfJob(job_id)

\* C4 as amended: the model name of a deployment request is not read from
\* the job.  In the plain and cross-region steps it is the name the user wrote
\* in place of the placeholder, one of the names the service offers; in the
\* cross-tenant step it is the example ID the cell binds to fine_tuned_model.
C4_NameWrittenByHand ==
    \A i \in Issued("PUT") :
        LET name == ModelNameOf(last.reqs[i])
        IN  IF last.cell = "cross-tenant"
            THEN name = ExampleFineTunedModel /\ fine_tuned_model = name
            ELSE name # Placeholder /\ name \in KnownModelNames

\* A plain deployment request names the model of a job other than the one
\* held in job_id.
C4_Witness ==
    /\ last.cell = "deploy"
    /\ Len(last.reqs) = 1
    /\ JobIndex(job_id) # 0
    /\ ModelNameOf(last.reqs[1]) \notin NamesOfJob(job_id)
    /\ \E j \in 1..Len(jobs) : ModelNameOf(last.reqs[1]) = jobs[j].fine_tuned_model

\* The file the service holds under an uploaded file's ID.
UploadedFile(id) == files[CHOOSE n \in 1..Len(files) : FileId(n) = id]

IsUploadOf(id, name) ==
    /\ \E n \in 1..Len(files) : FileId(n) = id
    /\ UploadedFile(id).filename = name

\* C5: a job-create request of the first create step is issued only when both
\* uploads have returned, with the ID of the training upload as training_file
\* and the ID of the validation upload as validation_file.
C5_CreateAfterUploads ==
    \A i \in 1..Len(last.reqs) :
        last.reqs[i].site = "jobs.create:seed" =>
            /\ last.reqs[i].args.training_file = training_file_id
            /\ last.reqs[i].args.validation_file = validation_file_id
            /\ IsUploadOf(last.reqs[i].args.training_file, TrainingFileName)
            /\ IsUploadOf(last.reqs[i].args.validation_file, ValidationFileName)

\* The first create step has created a job from the two uploaded files.
C5_Witness ==
    /\ last.cell = "create"
    /\ ~last.failed
    /\ Len(last.reqs) = 1
    /\ Len(files) >= 2

\* C6: what the checkpoints step returns is the list of checkpoints of the
\* job held in job_id.
C6_CheckpointsCellListsCheckpoints ==
    (last.cell = "checkpoints" /\ ~last.failed)
        => last.response = ServiceListCheckpoints(job_id)

\* C7 as stated: every deployment request is a PUT carrying
\* api-version=2023-05-01.
C7_EveryPutCarries20230501 ==
    \A i \in Issued("PUT") :
        /\ last.reqs[i].args.method = "PUT"
        /\ last.reqs[i].args.query = ("api-version" :> "2023-05-01")

\* C7 as amended: every deployment request is a PUT to the deployment named
\* model_deployment_name under management.azure.com; the plain and cross-region
\* requests carry api-version=2023-05-01 and the cross-tenant request carries
\* api-version=2024-10-01.
C7_ApiVersionPerCell ==
    \A i \in Issued("PUT") :
        /\ last.cell \in DeployCells
        /\ last.reqs[i].args.method = "PUT"
        /\ last.reqs[i].args.host = "management.azure.com"
        /\ last.reqs[i].args.deployment = model_deployment_name
        /\ last.reqs[i].args.query =
             ("api-version" :> IF last.cell = "cross-tenant" THEN "2024-10-01"
                               ELSE "2023-05-01")

\* The cross-tenant request was sent.
C7_Witness ==
    /\ last.cell = "cross-tenant"
    /\ Len(last.reqs) = 1
    /\ last.reqs[1].ok

\* The keys of properties.model beside format, name and version.
SourceKeys(body) == DOMAIN body.properties.model \ {"format", "name", "version"}

\* C8: every deployment request body is {sku: {name, capacity}, properties:
\* {model: {format: "OpenAI", name, version, ...}}} with no source key in the
\* plain step, source alone in the cross-region step and sourceAccount alone
\* in the cross-tenant step.
C8_BodyShape ==
    \A i \in Issued("PUT") :
        LET body == last.reqs[i].args.body
        IN  /\ DOMAIN body = {"sku", "properties"}
            /\ DOMAIN body.sku = {"name", "capacity"}
            /\ DOMAIN body.properties = {"model"}
            /\ {"format", "name", "version"} \subseteq DOMAIN body.properties.model
            /\ body.properties.model.format = "OpenAI"
            /\ Cardinality(SourceKeys(body)) <= 1
            /\ SourceKeys(body) = CASE last.cell = "deploy" -> {}
                                    [] last.cell = "cross-region" -> {"source"}
                                    [] last.cell = "cross-tenant" -> {"sourceAccount"}

\* The cross-region request was sent, with its source.
C8_Witness ==
    /\ last.cell = "cross-region"
    /\ Len(last.reqs) = 1
    /\ "source" \in DOMAIN last.reqs[1].args.body.properties.model

\* The position in ids of the identifier bound from the response of a call
\* site, 0 for a site whose response is bound to no identifier.
IdBoundAt(site) ==
    CASE site = "files.create:training" -> 1
      [] site = "files.create:validation" -> 2
      [] site = "jobs.create:seed" -> 3
      [] site = "jobs.retrieve:analysis" -> 4
      [] OTHER -> 0

\* No call site issues two requests in one run of its cell, and no request
\* follows a failed one.
NoRetry(step) ==
    /\ \A i, j \in 1..Len(step.reqs) : step.reqs[i].site = step.reqs[j].site => i = j
    /\ \A i \in 1..Len(step.reqs) : ~step.reqs[i].ok => i = Len(step.reqs)

\* C9 as stated: no request is retried, and a step whose request failed
\* leaves the four identifier variables as they were before the step.
C9_FailedStepKeepsIds ==
    [][last'.cell # "none" =>
         /\ NoRetry(last')
         /\ last'.failed => ids' = ids]_vars

\* C9 as amended: no call site issues two requests in one run and nothing
\* is sent after a failed request; an identifier changes in a step only when
\* the request it is bound from succeeded in that step, so a failed request
\* leaves its own identifier unchanged while the identifiers bound earlier in
\* the same step keep their new values.
C9_SingleShot ==
    [][last'.cell # "none" =>
         /\ NoRetry(last')
         /\ \A k \in 1..4 :
               ids'[k] # ids[k] =>
                   \E i \in 1..Len(last'.reqs) :
                       last'.reqs[i].ok /\ IdBoundAt(last'.reqs[i].site) = k]_vars

\* The validation upload failed after the training upload had returned:
\* training_file_id is new, validation_file_id is not bound.
C9_Witness ==
    /\ last.cell = "upload"
    /\ last.failed
    /\ Len(last.reqs) = 2
    /\ training_file_id = FileId(Len(files))
    /\ validation_file_id = Undef

\* C10: a succeeded job has its fine-tuned model and a result file; a queued
\* or running job has no fine-tuned model.
C10_ModelAndResultsOnSuccess ==
    \A j \in 1..Len(jobs) :
        /\ jobs[j].status = "succeeded" =>
              (jobs[j].fine_tuned_model # None /\ Len(jobs[j].result_files) > 0)
        /\ jobs[j].status \in {"queued", "running"} => jobs[j].fine_tuned_model = None

\* A job has succeeded while another is still running.
C10_Witness ==
    \E j, k \in 1..Len(jobs) :
        /\ jobs[j].status = "succeeded"
        /\ jobs[k].status = "running"

\* A step of the service in which a deployment went and none came.
IsDeletion == deployments' # deployments /\ deployments' \subseteq deployments

\* C11: a step that deletes an inactive deployment leaves every job, and with
\* it the customised model the deployment bound, as it was, leaves the files
\* and the kernel as they were, and in the state it leads to a deployment
\* request for that same model is accepted; in every state a customised model
\* that no deployment binds is accepted by a deployment request.
C11_DeletionKeepsModel ==
    /\ [][IsDeletion =>
            /\ last'.cell = "service:delete-inactive"
            /\ deployments' = deployments \ {last'.response}
            /\ jobs' = jobs /\ files' = files /\ kernel' = kernel
            /\ ServicePut(deployments', PlainDeployRequest(last'.response.model)).ok
            /\ \A j \in 1..Len(jobs) :
                  jobs[j].fine_tuned_model = last'.response.model
                  => last'.response.model \in DeployableNames(jobs'[j])]_vars
    /\ [](\A m \in KnownModelNames \ DeployedModels(deployments) :
            LET put == ServicePut(deployments, PlainDeployRequest(m))
            IN  put.ok /\ \E d \in put.deployments : d.model = m)

\* The deployment of a job's customised model has just been deleted: the job
\* still holds the model and no deployment binds it.
C11_Witness ==
    /\ last.cell = "service:delete-inactive"
    /\ \E j \in 1..Len(jobs) :
          /\ jobs[j].status = "succeeded"
          /\ jobs[j].fine_tuned_model = last.response.model
    /\ last.response.model \notin DeployedModels(deployments)

\* C12 as stated: every upload is sent with purpose "fine-tune", and every
\* job-create request carries a training_file, a validation_file and a base
\* model name.
C12_EveryCreateCarriesValidationFile ==
    /\ \A i \in Issued("files.create") :
          /\ "purpose" \in DOMAIN last.reqs[i].args
          /\ last.reqs[i].args.purpose = "fine-tune"
    /\ \A i \in Issued("jobs.create") :
          {"training_file", "validation_file", "model"} \subseteq DOMAIN last.reqs[i].args

\* C12 as amended: every upload is sent with purpose "fine-tune"; every
\* job-create request carries a bound training_file and the base model name
\* of MODEL_NAME; the request of the create cell carries the validation file
\* and seed 105 and no hyperparameters; the request of the hyperparameters
\* cell carries n_epochs = 2 and neither a validation_file nor a seed.
C12_RequestParameters ==
    /\ \A i \in Issued("files.create") :
          /\ "purpose" \in DOMAIN last.reqs[i].args
          /\ last.reqs[i].args.purpose = "fine-tune"
    /\ \A i \in Issued("jobs.create") :
          LET args == last.reqs[i].args
          IN  /\ {"training_file", "model"} \subseteq DOMAIN args
              /\ args.training_file # Undef
              /\ args.model = Env("MODEL_NAME")
              /\ DOMAIN args \subseteq {"training_file", "validation_file", "model",
                                        "seed", "hyperparameters"}
              /\ last.cell = "create" =>
                    /\ DOMAIN args = {"training_file", "validation_file", "model", "seed"}
                    /\ args.validation_file # Undef
                    /\ args.seed = Seed
              /\ last.cell = "hyperparameters" =>
                    /\ DOMAIN args = {"training_file", "model", "hyperparameters"}
                    /\ args.hyperparameters = [n_epochs |-> NEpochs]

\* The hyperparameters cell created a job, which has no validation file, from
\* a file uploaded with purpose "fine-tune".
C12_Witness ==
    /\ last.cell = "hyperparameters"
    /\ ~last.failed
    /\ Len(last.reqs) = 1
    /\ jobs[Len(jobs)].validation_file = None
    /\ \E n \in 1..Len(files) :
          FileId(n) = last.reqs[1].args.training_file /\ files[n].purpose = "fine-tune"

\* The statuses a job can have.
JobStatuses == {"queued", "running", "succeeded", "failed", "cancelled"}

\* C13: when the create cell has created a job, the line it prints under
\* "Status:" is the line the status cell prints for the response it received:
\* the label followed by the status of the created job, one of the five
\* statuses.
C13_CreatePrintsStatus ==
    (last.cell = "create" /\ ~last.failed) =>
        /\ Len(last.stdout) = 2
        /\ last.stdout[2] = StatusPrints(last.response)[2]
        /\ \E status \in JobStatuses :
              /\ status = jobs[JobIndex(last.response.id)].status
              /\ last.stdout[2] = <<"Status:", status>>

DestinationAccount(cell) ==
    IF cell = "cross-region"
    THEN AccountPath(Lit("<DESTINATION_SUBSCRIPTION_ID>"),
                     Lit("<DESTINATION_RESOURCE_GROUP_NAME>"),
                     Lit("<DESTINATION_AZURE_OPENAI_RESOURCE_NAME>"))
    ELSE AccountPath(Lit("DESTINATION-SUBSCRIPTION-ID"), Lit("DESTINATION-RESOURCE-GROUP"),
                     Lit("DESTINATION-AZURE-OPENAI-RESOURCE-NAME"))

SourceAccount(cell) ==
    IF cell = "cross-region"
    THEN AccountPath(Lit("<SOURCE_SUBSCRIPTION_ID>"), Lit("<SOURCE_RESOURCE_GROUP>"),
                     Lit("<SOURCE_RESOURCE>"))
    ELSE AccountPath(Lit("SOURCE-SUBSCRIPTION-ID"), Lit("SOURCE-RESOURCE-GROUP"),
                     Lit("SOURCE-AZURE-OPENAI-RESOURCE-NAME"))

\* C15: the URL of a cross-region or cross-tenant PUT is the path of the
\* destination account and holds no value of the source account; the source
\* path in its body is the path of the source account and holds no value of
\* the destination account; the cross-tenant request carries the destination
\* token in Authorization and the source token in
\* x-ms-authorization-auxiliary.
C15_DestinationInUrlSourceInBody ==
    last.cell \in {"cross-region", "cross-tenant"} =>
        \A i \in Issued("PUT") :
            LET http == last.reqs[i].args
                model == http.body.properties.model
                path == IF last.cell = "cross-region" THEN model.source
                        ELSE model.sourceAccount
            IN  /\ http.account = DestinationAccount(last.cell)
                /\ path = SourceAccount(last.cell)
                /\ Range(http.account) \cap Range(SourceAccount(last.cell)) = {}
                /\ Range(path) \cap Range(DestinationAccount(last.cell)) = {}
                /\ last.cell = "cross-tenant" =>
                      /\ http.headers["Authorization"]
                           = Bearer(Lit("DESTINATION-ACCESS-TOKEN"))
                      /\ http.headers["x-ms-authorization-auxiliary"]
                           = Bearer(Lit("SOURCE-ACCESS-TOKEN"))

\* The cross-tenant request was sent and the destination account now holds
\* the deployment.
C15_Witness ==
    /\ last.cell = "cross-tenant"
    /\ Len(last.reqs) = 1
    /\ last.reqs[1].ok
    /\ \E d \in deployments : d.key.account = DestinationAccount("cross-tenant")

\* The job is one the create cell made: it has the validation file and seed
\* 105, and no hyperparameters.
IsSeedJob(job) ==
    job.validation_file # None /\ job.seed = Seed /\ job.hyperparameters = None

\* C16: job_id is bound by the create cell only, so by one step of a run from
\* top to bottom: a step changes job_id only if it is a run of the create
\* cell whose request succeeded, and the hyperparameters cell, which creates a
\* second job, leaves job_id as it was.  job_id therefore never names the job
\* of the hyperparameters cell, and every status, events, checkpoints and
\* analysis request carries job_id, the ID of a job of the create cell.
C16_JobIdBoundByCreateOnly ==
    /\ [][/\ job_id' # job_id =>
                /\ last'.cell = "create" /\ ~last'.failed
                /\ job_id' = JobId(Len(jobs'))
          /\ last'.cell = "hyperparameters" => job_id' = job_id]_vars
    /\ [](job_id # Undef =>
            /\ JobIndex(job_id) > 0
            /\ IsSeedJob(jobs[JobIndex(job_id)]))
    /\ [](\A i \in Issued("jobs.retrieve") \cup Issued("jobs.list_events") :
            /\ last.reqs[i].args.fine_tuning_job_id = job_id
            /\ IsSeedJob(jobs[JobIndex(job_id)]))

\* The cells were run from top to bottom: two jobs exist, the second is the
\* one of the hyperparameters cell, and the analysis cell has just retrieved
\* the first, which job_id still names.
C16_Witness ==
    /\ Len(jobs) = 2
    /\ IsSeedJob(jobs[1])
    /\ jobs[2].validation_file = None
    /\ jobs[2].hyperparameters = [n_epochs |-> NEpochs]
    /\ job_id = JobId(1)
    /\ model_deployment_name # Undef
    /\ last.cell = "analysis"
    /\ Len(last.reqs) >= 1
    /\ last.reqs[1].args.fine_tuning_job_id = JobId(1)

\* The code cells of the notebook.
NotebookCells ==
    {"upload", "create", "hyperparameters", "status", "events", "checkpoints",
     "analysis", "chat"} \cup DeployCells

\* The operations that create something in the service, and those that read.
CreatingOps == {"files.create", "jobs.create", "PUT"}
ReadingOps == {"jobs.retrieve", "jobs.list_events", "files.retrieve", "files.content",
               "chat.completions.create"}

DeploymentKeys(deps) == {d.key : d \in deps}

\* C17: every request of the notebook is an upload, a job create, a
\* deployment PUT or a read; a step of a cell changes the service only
\* through a successful upload, job create or PUT, and then only by adding a
\* file, adding a job or binding a deployment: the files and jobs that exist
\* stay as they were and no deployment goes.  So a step in which an existing
\* job changes (its status with it) or a deployment goes is a step of the
\* service, not of a cell.
C17_NotebookOnlyCreates ==
    /\ [](\A i \in 1..Len(last.reqs) : last.reqs[i].op \in CreatingOps \cup ReadingOps)
    /\ [][last'.cell \in NotebookCells =>
            /\ service' # service =>
                  \E i \in 1..Len(last'.reqs) :
                      last'.reqs[i].ok /\ last'.reqs[i].op \in CreatingOps
            /\ Len(files') >= Len(files)
            /\ \A n \in 1..Len(files) : files'[n] = files[n]
            /\ Len(jobs') >= Len(jobs)
            /\ \A j \in 1..Len(jobs) : jobs'[j] = jobs[j]
            /\ DeploymentKeys(deployments) \subseteq DeploymentKeys(deployments')]_vars
    /\ [][(\/ \E j \in 1..Len(jobs) : jobs'[j].status # jobs[j].status
           \/ ~(DeploymentKeys(deployments) \subseteq DeploymentKeys(deployments')))
          => (last'.cell \notin NotebookCells /\ Len(last'.reqs) = 0)]_vars

\* The status cell has just read a job the service cancelled, while another
\* job is still as the notebook created it.
C17_Witness ==
    /\ last.cell = "status"
    /\ ~last.failed
    /\ last.response.status = "cancelled"
    /\ \E j \in 1..Len(jobs) : jobs[j].status = "queued"
====
